---- MODULE Spec2Model ----
(***************************************************************************)
(* The object tracker of hector_worldmodel (object_tracker.cpp): the       *)
(* callbacks of ObjectTracker acting on the shared ObjectModel.            *)
(*                                                                         *)
(* Geometry is reduced to one axis (the bearing axis of the percept): a    *)
(* position is an integer, a covariance is the scalar 1/info, and an       *)
(* object keeps its estimate as (ivec, info) with position = ivec / info,  *)
(* so that the Mahalanobis gate and the fusion are exact in integers.      *)
(*                                                                         *)
(* Spec   : callbacks dispatched one at a time (main(): ros::spin()).      *)
(* SpecMT : callbacks dispatched concurrently by two threads, serialized   *)
(*          only by ObjectModel::lock()/unlock().                          *)
(***************************************************************************)
EXTENDS Integers, Sequences, FiniteSets, TLC

\* Bounds of the model: messages and requests delivered per run.
MaxCalls == 3
MaxCallsMT == 2
MaxCallsAR == 3

\* Program constants.
DefaultDistance == 1
DistanceVariance == 1
MinHeight == -9999
MaxHeight == 9999
ConfirmBonus == 100
FrameId == "map"

\* worldmodel_msgs::ObjectState as the specification describes it: only the
\* locked/fixed sentinel is negative.
PENDING == 0
CONFIRMED == 1
DISCARDED == 2
LOCKED == -1

Workers == {1, 2}

VARIABLES
  project_objects,  \* _project_objects
  nverif,           \* verificationServices.size()
  store,            \* ObjectModel: sequence of object addresses, insertion order
  heap,             \* the Object instances, by address (shared_ptr targets)
  lockOwner,        \* ObjectModel's mutex: 0 free, else the worker holding it
  pc,               \* position of each worker in its callback
  loc,              \* locals of each worker's callback
  ncalls,           \* deliveries so far (also the clock for header stamps)
  budget,           \* deliveries allowed
  env               \* the messages and requests the node's peers may send

vars == <<project_objects, nverif, store, heap, lockOwner, pc, loc, ncalls, budget, env>>

----------------------------------------------------------------------------
\* Inputs.

\* worldmodel_msgs::PosePercept: header.frame_id, info.*, pose position x along
\* the modelled axis, height z (tenths), orientation yaw, info = 0 for an
\* all-zero covariance.
Percept(f, c, o, cs, os, x, i, z) ==
  [frame |-> f, class_id |-> c, object_id |-> o, class_support |-> cs,
   object_support |-> os, x |-> x, info |-> i, z |-> z, yaw |-> 1]

PosePercepts ==
  { Percept("map", "c", "", 1, 0, 1, 0, 0),
    Percept("map", "c", "", 1, 0, 3, 0, 0),
    Percept("map", "c", "", 1, 0, 1, 2, 0),
    Percept("map", "c", "", 1, 0, 2, 2, 0),
    Percept("map", "c", "", -1, 0, 1, 0, 0),
    Percept("map", "c", "", 0, 1, 1, 0, 0),
    Percept("cam", "c", "", 1, 0, 1, 0, 0),
    Percept("map", "c", "", 1, 0, 1, 0, 10000),
    Percept("map", "", "x", 0, 1, 1, 0, 0),
    Percept("map", "", "", 1, 1, 1, 0, 0),
    Percept("map", "d", "", 1, 0, 1, 0, 0) }

\* worldmodel_msgs::ImagePercept: header and info; the pixel fixes the bearing.
ImagePercepts ==
  { [frame |-> "cam", class_id |-> "c", object_id |-> "", class_support |-> 1,
     object_support |-> 0] }

\* worldmodel_msgs::AddObject::Request.
AddRequest(o, s, m) ==
  [object_id |-> o, class_id |-> "c", x |-> 1, info |-> 0, state |-> s,
   support |-> 5, map_to_next_obstacle |-> m, frame |-> "cam", yaw |-> 2]

AddRequests ==
  { AddRequest("x", LOCKED, FALSE),
    AddRequest("x", PENDING, TRUE),
    AddRequest("", PENDING, FALSE) }

\* worldmodel_msgs::SetObjectState::Request.
StateRequests ==
  { [object_id |-> "obj_1", new_state |-> LOCKED],
    [object_id |-> "x", new_state |-> CONFIRMED],
    [object_id |-> "nope", new_state |-> LOCKED] }

SysCommands == {"reset", "other"}

\* hector_nav_msgs::GetDistanceToObstacle responses: the call fails, or
\* returns a distance.
RangingOutcomes == { [ok |-> FALSE, distance |-> 0],
                     [ok |-> TRUE, distance |-> 0],
                     [ok |-> TRUE, distance |-> 2] }

\* tf: the transform of frame "cam" into the global frame.
Transforms == { [dx |-> 1, dz |-> 5, dyaw |-> 1] }

\* tf::StampedTransform cameraTransform (line 152) is constructed without
\* initialization and is assigned only by the lookup of line 157: when the
\* percept is already in the global frame, line 174 reads whatever the
\* origin's z happens to hold (in tenths, as MinHeight and MaxHeight).
UninitHeights == {0, 20000}

VerifyOutcomes == {"FAIL", "DISCARD", "CONFIRM", "UNKNOWN"}

\* Identifiers Object's constructor assigns when none is given.
AutoIds == <<"obj_1", "obj_2", "obj_3", "obj_4", "obj_5", "obj_6", "obj_7", "obj_8">>

----------------------------------------------------------------------------
\* Locals of a callback.

Idle ==
  [cb |-> "none", frame |-> "", class_id |-> "", object_id |-> "",
   class_support |-> 0, object_support |-> 0, support |-> 0,
   p |-> 0, q |-> 0, z |-> 0, relative_height |-> 0, yaw |-> 0, stamp |-> 0,
   obj |-> 0, newObject |-> FALSE, state |-> 0, map_to_next_obstacle |-> FALSE,
   vi |-> 0, data |-> "", ret |-> "none",
   \* history of the callback, read by the properties only
   outcome |-> "none", pubs |-> <<>>, locked |-> FALSE,
   ranged |-> "none", looked |-> "none", responses |-> <<>>,
   locks |-> 0, unlocks |-> 0,
   pre_store |-> <<>>, pre_heap |-> <<>>]

----------------------------------------------------------------------------
\* Object and ObjectModel.

\* Object::Object(class_id, object_id): a fresh object; an empty object_id is
\* replaced by an identifier of its own.
NewObject(class_id, object_id, addr) ==
  [object_id |-> IF object_id = "" THEN AutoIds[addr] ELSE object_id,
   class_id |-> class_id, ivec |-> 0, info |-> 1, support |-> 0,
   state |-> PENDING, yaw |-> 0, frame |-> "", stamp |-> 0,
   \* history, read by the properties only: the support deltas applied by
   \* percept cycles, whether addObjectCb has written the object, and the
   \* stamp of the callback that last wrote the estimate
   applied |-> 0, direct |-> FALSE, written |-> 0]

\* ObjectModel::getObject(object_id) on the store st over the objects hp: the
\* address of the stored object with that identifier, 0 (a null ObjectPtr)
\* when there is none.
getObjectIn(st, hp, object_id) ==
  IF \E i \in 1..Len(st) : hp[st[i]].object_id = object_id
  THEN st[CHOOSE i \in 1..Len(st) :
            /\ hp[st[i]].object_id = object_id
            /\ \A j \in 1..(i - 1) : hp[st[j]].object_id # object_id]
  ELSE 0

getObject(object_id) == getObjectIn(store, heap, object_id)

\* The object message and the model message (getObjectMessage,
\* getObjectModelMessage): copies of the fields.
ObjectMessage(addr) == [topic |-> "object", data |-> <<heap[addr]>>]

ModelMessage == [topic |-> "objects", data |-> [i \in 1..Len(store) |-> heap[store[i]]]]

\* History only: the delta a percept cycle applied to the support.
Applied(o, delta) == [o EXCEPT !.applied = @ + delta]

\* History only: the callback with this stamp wrote the estimate.
Written(o, stamp) == [o EXCEPT !.written = stamp]

\* Object::update(position, covariance, support): information-form fusion of
\* the estimate with the observation; the support is added.
ObjectUpdate(o, p, q, support) ==
  [o EXCEPT !.ivec = o.ivec + p * q, !.info = o.info + q,
            !.support = o.support + support]

\* Object::addSupport(support).
addSupport(o, support) == [o EXCEPT !.support = o.support + support]

\* Object::setPosition / setCovariance / setSupport as used at creation.
SetEstimate(o, p, q, support) ==
  [o EXCEPT !.ivec = p * q, !.info = q, !.support = support]

----------------------------------------------------------------------------
\* posePerceptCb: association (lines 199-213).

\* (diff^T (cov_x + cov)^-1 diff)[0] as the fraction <<num, den>>.
SqDistance(x, p, q) ==
  <<q * (x.ivec - p * x.info) * (x.ivec - p * x.info), x.info * (x.info + q)>>

CloserReversed(distance, min_distance) ==
  distance[1] * min_distance[2] > min_distance[1] * distance[2]

CloserOrEqual(distance, min_distance) ==
  distance[1] * min_distance[2] <= min_distance[1] * distance[2]

\* distance < min_distance (line 208).
Closer(distance, min_distance) ==
  distance[1] * min_distance[2] < min_distance[1] * distance[2]

\* The loop over the model (st, hp): the object selected so far and its
\* distance.
RECURSIVE Scan(_, _, _, _, _, _)
Scan(i, object, min_distance, l, st, hp) ==
  IF i > Len(st) THEN object
  ELSE LET x == hp[st[i]]
           distance == SqDistance(x, l.p, l.q)
       IN IF l.class_id # "" /\ l.class_id # x.class_id
          THEN Scan(i + 1, object, min_distance, l, st, hp)
          ELSE IF Closer(distance, min_distance)
               THEN Scan(i + 1, st[i], distance, l, st, hp)
               ELSE Scan(i + 1, object, min_distance, l, st, hp)

\* ObjectPtr object after "find correspondence": min_distance starts at 1.0f
\* and the scan is skipped for a percept that names an object.
FindCorrespondenceIn(st, hp, l) ==
  IF l.object_id = "" THEN Scan(1, 0, <<1, 1>>, l, st, hp) ELSE 0

FindCorrespondence(l) == FindCorrespondenceIn(store, heap, l)

----------------------------------------------------------------------------
\* posePerceptCb: the steps before the lock (lines 109-194).

Finish(l, outcome, ret) == <<"done", [l EXCEPT !.outcome = outcome, !.ret = ret]>>

ResolveSupportNoDrop(l) ==
  <<"pp_lock", [l EXCEPT !.support = IF l.object_id # "" THEN l.object_support
                                     ELSE IF l.class_id # "" THEN l.class_support
                                     ELSE 0]>>

\* calculate observation support, and the drop of a percept without any.
ResolveSupport(l) ==
  LET support == IF l.object_id # "" THEN l.object_support
                 ELSE IF l.class_id # "" THEN l.class_support
                 ELSE 0
  IN IF support = 0 THEN Finish(l, "drop_support", "void")
     ELSE <<"pp_lock", [l EXCEPT !.support = support]>>

\* check height: relative_height = pose z - cameraTransform origin z.
CheckHeight(l, camera_z) ==
  LET relative_height == l.z - camera_z
      m == [l EXCEPT !.relative_height = relative_height]
  IN IF relative_height < MinHeight \/ relative_height > MaxHeight
     THEN Finish(m, "drop_height", "void")
     ELSE ResolveSupport(m)

\* project percept coordinates to map frame: a lookup is needed when the
\* percept's frame is not the global one.
ToMapFrame(l, camera_z) ==
  IF FrameId # "" /\ l.frame # FrameId THEN <<"pp_tf", l>> ELSE CheckHeight(l, camera_z)

\* extract variance matrix; if no variance is given, set variance to default.
DefaultCovariance(l, camera_z) ==
  ToMapFrame(IF l.q = 0 THEN [l EXCEPT !.q = DistanceVariance] ELSE l, camera_z)

RangeAnswered(r) == r.ok

\* distanceToObstacle.call(request, response) && response.distance > 0.0
\* (lines 124 and 378).
RangeUsable(r) == r.ok /\ r.distance > 0

\* History only: what the ranging service answered.
Ranged(r) == IF r.ok /\ r.distance > 0 THEN "ok" ELSE "fail"

\* x / |x| along the modelled axis.
Normalized(x) == IF x < 0 THEN -1 ELSE 1

\* Entry of posePerceptCb with a percept; camera_z is what cameraTransform
\* holds if no lookup assigns it.
PoseStart(w, percept, camera_z) ==
  LET l == [Idle EXCEPT !.cb = "pose", !.frame = percept.frame,
              !.class_id = percept.class_id, !.object_id = percept.object_id,
              !.class_support = percept.class_support,
              !.object_support = percept.object_support,
              !.p = percept.x, !.q = percept.info, !.z = percept.z,
              !.yaw = percept.yaw, !.stamp = ncalls + 1,
              !.pre_store = store, !.pre_heap = heap]
      next == IF project_objects THEN <<"pp_range", l>>
              ELSE DefaultCovariance(l, camera_z)
  IN /\ pc[w] = "idle"
     /\ ncalls < budget
     /\ ncalls' = ncalls + 1
     /\ pc' = [pc EXCEPT ![w] = next[1]]
     /\ loc' = [loc EXCEPT ![w] = next[2]]
     /\ UNCHANGED <<project_objects, nverif, store, heap, lockOwner, budget, env>>

posePerceptCb(w) ==
  \E percept \in env.percepts : \E camera_z \in UninitHeights :
    PoseStart(w, percept, camera_z)

\* imagePerceptCb: the pixel's ray scaled to _default_distance, a covariance
\* left all zero, forwarded to posePerceptCb.
ImageToPose(percept) ==
  [frame |-> percept.frame, class_id |-> percept.class_id,
   object_id |-> percept.object_id, class_support |-> percept.class_support,
   object_support |-> percept.object_support,
   x |-> Normalized(1) * DefaultDistance, info |-> 0, z |-> 0, yaw |-> 0]

imagePerceptCb(w) ==
  \E percept \in env.images : \E camera_z \in UninitHeights :
    PoseStart(w, ImageToPose(percept), camera_z)

\* distanceToObstacle.call returns (lines 124-132).
PoseRanging(w) ==
  /\ pc[w] = "pp_range"
  /\ \E r \in RangingOutcomes : \E camera_z \in UninitHeights :
       LET l == [loc[w] EXCEPT !.ranged = Ranged(r)]
           next == IF RangeUsable(r)
                   THEN DefaultCovariance([l EXCEPT !.p = Normalized(l.p) * r.distance],
                                          camera_z)
                   ELSE Finish(l, "drop_range", "void")
       IN /\ pc' = [pc EXCEPT ![w] = next[1]]
          /\ loc' = [loc EXCEPT ![w] = next[2]]
  /\ UNCHANGED <<project_objects, nverif, store, heap, lockOwner, ncalls, budget, env>>

\* tf.waitForTransform / lookupTransform return or throw (lines 155-170).
PoseTransform(w) ==
  /\ pc[w] = "pp_tf"
  /\ \/ \E t \in Transforms :
          LET l == [loc[w] EXCEPT !.looked = "ok"]
              next == CheckHeight([l EXCEPT !.p = l.p + t.dx, !.z = l.z + t.dz,
                                            !.yaw = l.yaw + t.dyaw], t.dz)
          IN /\ pc' = [pc EXCEPT ![w] = next[1]]
             /\ loc' = [loc EXCEPT ![w] = next[2]]
     \/ LET next == Finish([loc[w] EXCEPT !.looked = "fail"], "drop_tf", "void")
        IN /\ pc' = [pc EXCEPT ![w] = next[1]]
           /\ loc' = [loc EXCEPT ![w] = next[2]]
  /\ UNCHANGED <<project_objects, nverif, store, heap, lockOwner, ncalls, budget, env>>

----------------------------------------------------------------------------
\* posePerceptCb: the locked section (lines 196-251).

IsFixedNever(o) == FALSE

IsFixedOrDiscarded(o) == o.state < 0 \/ o.state = DISCARDED

\* object->getState() < 0 (line 215).
IsFixed(o) == o.state < 0

PoseAssociateNoWait(w) ==
  /\ pc[w] = "pp_lock"
  /\ LET object == FindCorrespondence(loc[w])
     IN IF object # 0 /\ IsFixed(heap[object])
        THEN LET next == Finish([loc[w] EXCEPT !.locked = TRUE, !.locks = @ + 1,
                                              !.unlocks = @ + 1],
                                "drop_locked", "void")
             IN /\ pc' = [pc EXCEPT ![w] = next[1]]
                /\ loc' = [loc EXCEPT ![w] = next[2]]
                /\ lockOwner' = 0
        ELSE /\ pc' = [pc EXCEPT ![w] = "pp_mutate"]
             /\ loc' = [loc EXCEPT ![w].obj = object, ![w].locked = TRUE,
                                   ![w].locks = @ + 1]
             /\ lockOwner' = w
  /\ UNCHANGED <<project_objects, nverif, store, heap, ncalls, budget, env>>

PoseAssociateReturnLocked(w) ==
  /\ pc[w] = "pp_lock"
  /\ lockOwner = 0
  /\ LET object == FindCorrespondence(loc[w])
     IN IF object # 0 /\ IsFixed(heap[object])
        THEN LET next == Finish([loc[w] EXCEPT !.locked = TRUE, !.locks = @ + 1],
                                "drop_locked", "void")
             IN /\ pc' = [pc EXCEPT ![w] = next[1]]
                /\ loc' = [loc EXCEPT ![w] = next[2]]
                /\ lockOwner' = w
        ELSE /\ pc' = [pc EXCEPT ![w] = "pp_mutate"]
             /\ loc' = [loc EXCEPT ![w].obj = object, ![w].locked = TRUE,
                                   ![w].locks = @ + 1]
             /\ lockOwner' = w
  /\ UNCHANGED <<project_objects, nverif, store, heap, ncalls, budget, env>>

\* model.lock(), find correspondence, and the return for an object with a
\* fixed state (model.unlock(); return).
PoseAssociate(w) ==
  /\ pc[w] = "pp_lock"
  /\ lockOwner = 0
  /\ LET object == FindCorrespondence(loc[w])
     IN IF object # 0 /\ IsFixed(heap[object])
        THEN LET next == Finish([loc[w] EXCEPT !.locked = TRUE, !.locks = @ + 1,
                                              !.unlocks = @ + 1],
                                "drop_locked", "void")
             IN /\ pc' = [pc EXCEPT ![w] = next[1]]
                /\ loc' = [loc EXCEPT ![w] = next[2]]
                /\ lockOwner' = 0
        ELSE /\ pc' = [pc EXCEPT ![w] = "pp_mutate"]
             /\ loc' = [loc EXCEPT ![w].obj = object, ![w].locked = TRUE,
                                   ![w].locks = @ + 1]
             /\ lockOwner' = w
  /\ UNCHANGED <<project_objects, nverif, store, heap, ncalls, budget, env>>

\* model.add(class_id, object_id) followed by setPosition, setCovariance and
\* setSupport (lines 222-229). ObjectModel::add refuses an identifier that is
\* already stored: the exception leaves posePerceptCb at once.
PoseCreate(w) ==
  LET l == loc[w]
      addr == Len(heap) + 1
  IN IF l.object_id # "" /\ getObject(l.object_id) # 0
     THEN /\ pc' = [pc EXCEPT ![w] = "aborted"]
          /\ loc' = [loc EXCEPT ![w].outcome = "add_error"]
          /\ UNCHANGED <<store, heap>>
     ELSE /\ heap' = Append(heap, Written(Applied(SetEstimate(NewObject(l.class_id, l.object_id, addr),
                                                              l.p, l.q, l.support),
                                                  l.support), l.stamp))
          /\ store' = Append(store, addr)
          /\ pc' = [pc EXCEPT ![w] = "pp_header"]
          /\ loc' = [loc EXCEPT ![w].obj = addr, ![w].outcome = "create"]

DecayBySet(o, support) == [o EXCEPT !.support = support]

DecayIgnored(o, support) == o

\* object->addSupport(support) of the "simply decrease support" branch.
Decay(o, support) == addSupport(o, support)

\* create new object, or update existing object, or simply decrease support.
PoseMutate(w) ==
  /\ pc[w] = "pp_mutate"
  /\ LET l == loc[w]
     IN IF l.obj = 0
        THEN PoseCreate(w)
        ELSE /\ heap' = [heap EXCEPT ![l.obj] =
                           Written(Applied(IF l.support > 0
                                           THEN ObjectUpdate(@, l.p, l.q, l.support)
                                           ELSE Decay(@, l.support), l.support),
                                   l.stamp)]
             /\ pc' = [pc EXCEPT ![w] = "pp_header"]
             /\ loc' = [loc EXCEPT ![w].outcome = IF l.support > 0 THEN "fuse" ELSE "decay"]
             /\ UNCHANGED store
  /\ UNCHANGED <<project_objects, nverif, lockOwner, ncalls, budget, env>>

PoseHeaderPerceptFrame(w) ==
  /\ pc[w] = "pp_header"
  /\ LET l == loc[w]
     IN /\ heap' = [heap EXCEPT ![l.obj].yaw = l.yaw, ![l.obj].frame = l.frame,
                                ![l.obj].stamp = l.stamp]
        /\ lockOwner' = 0
        /\ pc' = [pc EXCEPT ![w] = IF nverif > 0 THEN "pp_verify" ELSE "pp_publish"]
        /\ loc' = [loc EXCEPT ![w].vi = IF nverif > 0 THEN 1 ELSE 0,
                              ![w].unlocks = @ + 1]
  /\ UNCHANGED <<project_objects, nverif, store, ncalls, budget, env>>

PoseHeaderKeepLock(w) ==
  /\ pc[w] = "pp_header"
  /\ LET l == loc[w]
     IN /\ heap' = [heap EXCEPT ![l.obj].yaw = l.yaw, ![l.obj].frame = FrameId,
                                ![l.obj].stamp = l.stamp]
        /\ pc' = [pc EXCEPT ![w] = IF nverif > 0 THEN "pp_verify" ELSE "pp_publish"]
        /\ loc' = [loc EXCEPT ![w].vi = IF nverif > 0 THEN 1 ELSE 0]
  /\ UNCHANGED <<project_objects, nverif, store, lockOwner, ncalls, budget, env>>

\* set object orientation, update object header, model.unlock(); with
\* verification services configured the first call is entered.
PoseHeader(w) ==
  /\ pc[w] = "pp_header"
  /\ LET l == loc[w]
     IN /\ heap' = [heap EXCEPT ![l.obj].yaw = l.yaw, ![l.obj].frame = FrameId,
                                ![l.obj].stamp = l.stamp]
        /\ lockOwner' = 0
        /\ pc' = [pc EXCEPT ![w] = IF nverif > 0 THEN "pp_verify" ELSE "pp_publish"]
        /\ loc' = [loc EXCEPT ![w].vi = IF nverif > 0 THEN 1 ELSE 0,
                              ![w].unlocks = @ + 1]
  /\ UNCHANGED <<project_objects, nverif, store, ncalls, budget, env>>

\* What a verification response does to the object (lines 261-273).
ApplyVerification(o, r) ==
  IF r = "DISCARD" THEN [o EXCEPT !.state = DISCARDED]
  ELSE IF r = "CONFIRM" THEN addSupport(o, ConfirmBonus)
  ELSE o

PoseVerifyUntilDiscard(w) ==
  /\ pc[w] = "pp_verify"
  /\ \E r \in VerifyOutcomes :
       LET l == loc[w]
       IN /\ heap' = [heap EXCEPT ![l.obj] =
                           Applied(ApplyVerification(@, r),
                                   IF r = "CONFIRM" THEN ConfirmBonus ELSE 0)]
          /\ pc' = [pc EXCEPT ![w] = IF l.vi = nverif \/ r = "DISCARD"
                                     THEN "pp_publish" ELSE "pp_verify"]
          /\ loc' = [loc EXCEPT ![w].vi = l.vi + 1,
                                ![w].responses = Append(@, r)]
  /\ UNCHANGED <<project_objects, nverif, store, lockOwner, ncalls, budget, env>>

\* it->call(request, response) of verification service vi returns; the next
\* service is called, or the loop ends.
PoseVerify(w) ==
  /\ pc[w] = "pp_verify"
  /\ \E r \in VerifyOutcomes :
       LET l == loc[w]
       IN /\ heap' = [heap EXCEPT ![l.obj] =
                           Applied(ApplyVerification(@, r),
                                   IF r = "CONFIRM" THEN ConfirmBonus ELSE 0)]
          /\ pc' = [pc EXCEPT ![w] = IF l.vi = nverif THEN "pp_publish" ELSE "pp_verify"]
          /\ loc' = [loc EXCEPT ![w].vi = l.vi + 1,
                                ![w].responses = Append(@, r)]
  /\ UNCHANGED <<project_objects, nverif, store, lockOwner, ncalls, budget, env>>

PosePublishModelOnly(w) ==
  /\ pc[w] = "pp_publish"
  /\ pc' = [pc EXCEPT ![w] = "pm_publish"]
  /\ UNCHANGED <<project_objects, nverif, store, heap, lockOwner, loc, ncalls, budget, env>>

\* modelUpdatePublisher.publish(object->getObjectMessage()) (line 277).
PosePublish(w) ==
  /\ pc[w] = "pp_publish"
  /\ pc' = [pc EXCEPT ![w] = "pm_publish"]
  /\ loc' = [loc EXCEPT ![w].pubs = Append(@, ObjectMessage(loc[w].obj))]
  /\ UNCHANGED <<project_objects, nverif, store, heap, lockOwner, ncalls, budget, env>>

----------------------------------------------------------------------------
\* publishModel.

\* modelPublisher.publish(model.getObjectModelMessage()) (line 429).
PublishModel(w) ==
  /\ pc[w] = "pm_publish"
  /\ pc' = [pc EXCEPT ![w] = "pm_draw"]
  /\ loc' = [loc EXCEPT ![w].pubs = Append(@, ModelMessage)]
  /\ UNCHANGED <<project_objects, nverif, store, heap, lockOwner, ncalls, budget, env>>

\* model.lock(), the loop over the model for the drawings, model.unlock();
\* the caller returns after it.
DrawModel(w) ==
  /\ pc[w] = "pm_draw"
  /\ lockOwner = 0
  /\ pc' = [pc EXCEPT ![w] = "done"]
  /\ loc' = [loc EXCEPT ![w].locked = TRUE, ![w].locks = @ + 1, ![w].unlocks = @ + 1]
  /\ UNCHANGED <<project_objects, nverif, store, heap, lockOwner, ncalls, budget, env>>

\* The callback has returned to the dispatcher.
Return(w) ==
  /\ pc[w] = "done"
  /\ pc' = [pc EXCEPT ![w] = "idle"]
  /\ loc' = [loc EXCEPT ![w] = Idle]
  /\ UNCHANGED <<project_objects, nverif, store, heap, lockOwner, ncalls, budget, env>>

----------------------------------------------------------------------------
\* setObjectStateCb (lines 282-297).

\* model.lock(); getObject; for an unknown identifier model.unlock() and
\* return false; else setState, publish the object, model.unlock(), and go on
\* to publishModel().
setObjectStateCb(w) ==
  /\ pc[w] = "idle"
  /\ ncalls < budget
  /\ ncalls' = ncalls + 1
  /\ lockOwner = 0
  /\ \E request \in env.states :
       LET object == getObject(request.object_id)
           l == [Idle EXCEPT !.cb = "setstate", !.object_id = request.object_id,
                             !.state = request.new_state, !.obj = object,
                             !.locked = TRUE, !.locks = 1, !.unlocks = 1,
                             !.pre_store = store, !.pre_heap = heap]
       IN IF object = 0
          THEN LET next == Finish(l, "not_found", "false")
               IN /\ pc' = [pc EXCEPT ![w] = next[1]]
                  /\ loc' = [loc EXCEPT ![w] = next[2]]
                  /\ UNCHANGED heap
          ELSE /\ heap' = [heap EXCEPT ![object].state = request.new_state]
               /\ pc' = [pc EXCEPT ![w] = "pm_publish"]
               /\ loc' = [loc EXCEPT ![w] =
                             [l EXCEPT !.outcome = "setstate", !.ret = "true",
                                       !.pubs = <<[topic |-> "object",
                                                   data |-> <<heap'[object]>>]>>]]
  /\ lockOwner' = 0
  /\ UNCHANGED <<project_objects, nverif, store, budget, env>>

----------------------------------------------------------------------------
\* addObjectCb (lines 299-356), mapToNextObstacle, transformPose.

\* if no variance is given, set variance to default (1.0); transformPose
\* comes next.
AddCovariance(l) ==
  <<"ao_tf", IF l.q = 0 THEN [l EXCEPT !.q = 1] ELSE l>>

\* Entry: check if object already exist (without the lock), create a new
\* object if not, default the stamp to now, then mapToNextObstacle when asked.
addObjectCb(w) ==
  /\ pc[w] = "idle"
  /\ ncalls < budget
  /\ \E request \in env.adds :
       LET object == IF request.object_id # "" THEN getObject(request.object_id) ELSE 0
           l == [Idle EXCEPT !.cb = "add", !.frame = request.frame,
                   !.class_id = request.class_id, !.object_id = request.object_id,
                   !.support = request.support, !.state = request.state,
                   !.p = request.x, !.q = request.info, !.yaw = request.yaw,
                   !.stamp = ncalls + 1, !.obj = object, !.newObject = (object = 0),
                   !.map_to_next_obstacle = request.map_to_next_obstacle,
                   !.pre_store = store, !.pre_heap = heap]
           next == IF request.map_to_next_obstacle THEN <<"ao_range", l>>
                   ELSE AddCovariance(l)
       IN /\ pc' = [pc EXCEPT ![w] = next[1]]
          /\ loc' = [loc EXCEPT ![w] = next[2]]
  /\ ncalls' = ncalls + 1
  /\ UNCHANGED <<project_objects, nverif, store, heap, lockOwner, budget, env>>

\* mapToNextObstacle: the service does not exist, or the call returns.
AddRanging(w) ==
  /\ pc[w] = "ao_range"
  /\ \/ LET next == Finish([loc[w] EXCEPT !.ranged = "fail"], "add_fail_range", "false")
        IN /\ pc' = [pc EXCEPT ![w] = next[1]]
           /\ loc' = [loc EXCEPT ![w] = next[2]]
     \/ \E r \in RangingOutcomes :
          LET l == [loc[w] EXCEPT !.ranged = Ranged(r)]
              next == IF RangeUsable(r)
                      THEN AddCovariance([l EXCEPT !.p = Normalized(l.p) * r.distance])
                      ELSE Finish(l, "add_fail_range", "false")
          IN /\ pc' = [pc EXCEPT ![w] = next[1]]
             /\ loc' = [loc EXCEPT ![w] = next[2]]
  /\ UNCHANGED <<project_objects, nverif, store, heap, lockOwner, ncalls, budget, env>>

\* transformPose: the lookup throws, or the pose is transformed and the
\* header's frame becomes _frame_id.
AddTransform(w) ==
  /\ pc[w] = "ao_tf"
  /\ \/ LET next == Finish([loc[w] EXCEPT !.looked = "fail"], "add_fail_tf", "false")
        IN /\ pc' = [pc EXCEPT ![w] = next[1]]
           /\ loc' = [loc EXCEPT ![w] = next[2]]
     \/ \E t \in Transforms :
          /\ pc' = [pc EXCEPT ![w] = "ao_lock"]
          /\ loc' = [loc EXCEPT ![w].p = @ + t.dx, ![w].yaw = @ + t.dyaw,
                                ![w].frame = FrameId, ![w].looked = "ok"]
  /\ UNCHANGED <<project_objects, nverif, store, heap, lockOwner, ncalls, budget, env>>

\* setHeader, setPose, setState, setSupport on the object of the request.
AddSet(o, l) ==
  [o EXCEPT !.frame = l.frame, !.stamp = l.stamp, !.ivec = l.p * l.q,
            !.info = l.q, !.yaw = l.yaw, !.state = l.state, !.support = l.support,
            !.direct = TRUE, !.written = l.stamp]

\* model.lock(); the object is overwritten; model.add(object) if it is new;
\* the object is published; model.unlock(); publishModel() follows.
AddCommit(w) ==
  /\ pc[w] = "ao_lock"
  /\ lockOwner = 0
  /\ LET l == loc[w]
         addr == Len(heap) + 1
     IN IF l.newObject
        THEN /\ heap' = Append(heap, AddSet(NewObject(l.class_id, l.object_id, addr), l))
             /\ store' = Append(store, addr)
             /\ loc' = [loc EXCEPT ![w].obj = addr, ![w].outcome = "add_new",
                                   ![w].ret = "true", ![w].locked = TRUE,
                                   ![w].locks = @ + 1, ![w].unlocks = @ + 1,
                                   ![w].pubs = <<[topic |-> "object",
                                                  data |-> <<heap'[addr]>>]>>]
        ELSE /\ heap' = [heap EXCEPT ![l.obj] = AddSet(@, l)]
             /\ store' = store
             /\ loc' = [loc EXCEPT ![w].outcome = "add_update",
                                   ![w].ret = "true", ![w].locked = TRUE,
                                   ![w].locks = @ + 1, ![w].unlocks = @ + 1,
                                   ![w].pubs = <<[topic |-> "object",
                                                  data |-> <<heap'[l.obj]>>]>>]
  /\ pc' = [pc EXCEPT ![w] = "pm_publish"]
  /\ lockOwner' = 0
  /\ UNCHANGED <<project_objects, nverif, ncalls, budget, env>>

----------------------------------------------------------------------------
\* getObjectModelCb (lines 358-361).

\* response.model = *(model.getObjectModelMessage()); return true.
getObjectModelCb(w) ==
  /\ pc[w] = "idle"
  /\ ncalls < budget
  /\ ncalls' = ncalls + 1
  /\ pc' = [pc EXCEPT ![w] = "done"]
  /\ loc' = [loc EXCEPT ![w] =
                [Idle EXCEPT !.cb = "getmodel", !.outcome = "getmodel", !.ret = "true",
                             !.pubs = <<[topic |-> "response", data |-> ModelMessage.data]>>,
                             !.pre_store = store, !.pre_heap = heap]]
  /\ UNCHANGED <<project_objects, nverif, store, heap, lockOwner, budget, env>>

----------------------------------------------------------------------------
\* sysCommandCb (lines 75-81).

\* ObjectModel::reset(): the store is emptied.
ModelReset == <<>>

sysCommandCbAnyData(w) ==
  /\ pc[w] = "idle"
  /\ ncalls < budget
  /\ ncalls' = ncalls + 1
  /\ \E data \in SysCommands :
       /\ store' = ModelReset
       /\ loc' = [loc EXCEPT ![w] = [Idle EXCEPT !.cb = "sys", !.data = data,
                                                 !.outcome = "sys", !.ret = "void",
                                                 !.pre_store = store, !.pre_heap = heap]]
  /\ pc' = [pc EXCEPT ![w] = "done"]
  /\ UNCHANGED <<project_objects, nverif, heap, lockOwner, budget, env>>

\* if (sysCommand->data == "reset") model.reset().
sysCommandCb(w) ==
  /\ pc[w] = "idle"
  /\ ncalls < budget
  /\ ncalls' = ncalls + 1
  /\ \E data \in SysCommands :
       /\ store' = IF data = "reset" THEN ModelReset ELSE store
       /\ loc' = [loc EXCEPT ![w] = [Idle EXCEPT !.cb = "sys", !.data = data,
                                                 !.outcome = "sys", !.ret = "void",
                                                 !.pre_store = store, !.pre_heap = heap]]
  /\ pc' = [pc EXCEPT ![w] = "done"]
  /\ UNCHANGED <<project_objects, nverif, heap, lockOwner, budget, env>>

----------------------------------------------------------------------------
\* The node.

\* The parameters read at construction (project_objects,
\* verfication_services) and the peers' messages, for each specification.
Configs == { <<FALSE, 0>>, <<TRUE, 0>>, <<FALSE, 2>>, <<TRUE, 2>> }

Env == [percepts |-> PosePercepts, images |-> ImagePercepts,
        adds |-> AddRequests, states |-> StateRequests]

ConfigsMT == { <<TRUE, 0>>, <<FALSE, 1>> }

EnvMT == [percepts |-> { Percept("map", "c", "", 1, 0, 1, 0, 0) },
          images |-> ImagePercepts,
          adds |-> { AddRequest("x", PENDING, TRUE) },
          states |-> { [object_id |-> "obj_1", new_state |-> LOCKED],
                       [object_id |-> "nope", new_state |-> LOCKED] }]

InitNode(configs) ==
  /\ \E c \in configs : project_objects = c[1] /\ nverif = c[2]
  /\ store = <<>>
  /\ heap = <<>>
  /\ lockOwner = 0
  /\ pc = [w \in Workers |-> "idle"]
  /\ loc = [w \in Workers |-> Idle]
  /\ ncalls = 0

\* The deliveries explored: one fewer where every percept cycle also runs the
\* verification round trips.
Budget(n) == IF nverif > 0 THEN n - 1 ELSE n

Init == InitNode(Configs) /\ budget = Budget(MaxCalls) /\ env = Env

InitMT == InitNode(ConfigsMT) /\ budget = MaxCallsMT /\ env = EnvMT

Step(w) ==
  \/ posePerceptCb(w)
  \/ imagePerceptCb(w)
  \/ PoseRanging(w)
  \/ PoseTransform(w)
  \/ PoseAssociate(w)
  \/ PoseMutate(w)
  \/ PoseHeader(w)
  \/ PoseVerify(w)
  \/ PosePublish(w)
  \/ PublishModel(w)
  \/ DrawModel(w)
  \/ Return(w)
  \/ setObjectStateCb(w)
  \/ addObjectCb(w)
  \/ AddRanging(w)
  \/ AddTransform(w)
  \/ AddCommit(w)
  \/ sysCommandCb(w)
  \/ getObjectModelCb(w)

\* ros::spin(): one thread runs every callback to its end.
Next == Step(1)

\* Two spinner threads.
NextMT == \E w \in Workers : Step(w)

Spec == Init /\ [][Next]_vars

SpecMT == InitMT /\ [][NextMT]_vars

\* The node as it serves add_object requests and syscommand messages only,
\* on two spinner threads.
ConfigsAR == { <<FALSE, 0>> }

EnvAR == [percepts |-> {}, images |-> {},
          adds |-> { AddRequest("x", PENDING, TRUE) }, states |-> {}]

InitAR == InitNode(ConfigsAR) /\ budget = MaxCallsAR /\ env = EnvAR

StepAR(w) ==
  \/ addObjectCb(w)
  \/ AddRanging(w)
  \/ AddTransform(w)
  \/ AddCommit(w)
  \/ PublishModel(w)
  \/ DrawModel(w)
  \/ Return(w)
  \/ sysCommandCb(w)

NextAR == \E w \in Workers : StepAR(w)

SpecAR == InitAR /\ [][NextAR]_vars

----------------------------------------------------------------------------
\* Properties.

\* The percept cycle of worker w is past its locked section.
PastLock(w) ==
  /\ loc[w].cb = "pose"
  /\ loc[w].locked
  /\ pc[w] \in {"pp_header", "pp_verify", "pp_publish", "pm_publish", "pm_draw", "done"}

\* C1: a percept that posePerceptCb associates to an object with a fixed
\* state (state < 0) leaves every object (position, covariance, support,
\* state, orientation, header) and the store as they were at the delivery,
\* creates no object, publishes nothing and leaves the lock free.
C1_FixedObjectUnmodified ==
  \A w \in Workers :
    LET l == loc[w]
        object == FindCorrespondenceIn(l.pre_store, l.pre_heap, l)
    IN (PastLock(w) /\ object # 0 /\ l.pre_heap[object].state < 0)
       => /\ pc[w] = "done"
          /\ heap = l.pre_heap
          /\ store = l.pre_store
          /\ l.pubs = <<>>
          /\ lockOwner = 0

C1_Witness ==
  \E w \in Workers :
    /\ pc[w] = "done"
    /\ loc[w].outcome = "drop_locked"
    /\ loc[w].support > 0

\* The squared Mahalanobis distance of the percept of l to every object of
\* its class that was stored at the delivery is at least 1.0.
NoneInGate(l) ==
  \A i \in 1..Len(l.pre_store) :
    LET x == l.pre_heap[l.pre_store[i]]
        d == SqDistance(x, l.p, l.q)
    IN x.class_id = l.class_id => d[1] >= d[2]

\* C2: a percept without object id whose squared Mahalanobis distance to
\* every stored object of its class is >= 1.0 is not fused: the store grows
\* by exactly one object, which carries the percept's position, covariance
\* and support, and no stored object's position, covariance or support
\* changes.
C2_OutsideGateCreates ==
  \A w \in Workers :
    LET l == loc[w]
    IN (PastLock(w) /\ l.object_id = "" /\ NoneInGate(l))
       => /\ Len(store) = Len(l.pre_store) + 1
          /\ SubSeq(store, 1, Len(l.pre_store)) = l.pre_store
          /\ LET o == heap[store[Len(store)]]
             IN /\ o.ivec = l.p * l.q
                /\ o.info = l.q
                /\ pc[w] = "pp_header" => o.support = l.support
          /\ \A a \in 1..Len(l.pre_heap) :
               /\ heap[a].ivec = l.pre_heap[a].ivec
               /\ heap[a].info = l.pre_heap[a].info
               /\ heap[a].support = l.pre_heap[a].support

\* A percept at a distance of exactly 1.0 from a stored object of its class
\* has created an object.
C2_Witness ==
  \E w \in Workers :
    /\ pc[w] = "pp_header"
    /\ loc[w].outcome = "create"
    /\ NoneInGate(loc[w])
    /\ \E i \in 1..Len(loc[w].pre_store) :
         LET x == loc[w].pre_heap[loc[w].pre_store[i]]
             d == SqDistance(x, loc[w].p, loc[w].q)
         IN x.class_id = loc[w].class_id /\ d[1] = d[2]

\* C3: when a percept with a class, positive support and no object id has
\* gone through posePerceptCb, the store has grown by at most one object, and
\* the association of the same percept with the store as it is now selects
\* the object that cycle wrote, which is not fixed: every repetition is fused
\* into that object and creates none. (A percept dropped for an object with
\* a fixed state is dropped again.)
C3_RepeatedPerceptFuses ==
  \A w \in Workers :
    LET l == loc[w]
        again == FindCorrespondence(l)
    IN (pc[w] = "done" /\ l.cb = "pose" /\ l.locked /\ l.object_id = "" /\ l.support > 0)
       => /\ Len(store) <= Len(l.pre_store) + 1
          /\ IF l.outcome = "drop_locked"
             THEN again # 0 /\ heap[again].state < 0
             ELSE again = l.obj /\ heap[again].state >= 0

\* The third of three identical percepts has been fused into the one object.
C3_Witness ==
  \E w \in Workers :
    /\ pc[w] = "done"
    /\ loc[w].outcome = "fuse"
    /\ Len(store) = 1
    /\ heap[loc[w].obj].info = 3 * loc[w].q
    /\ heap[loc[w].obj].ivec = 3 * loc[w].q * loc[w].p

\* C4: the support of an object that only percept cycles have written is the
\* support of the percept that created it plus the supports of the percepts
\* fused into it or decaying it plus 100 for every CONFIRM response.
C4_SupportAdditive ==
  \A a \in 1..Len(heap) : ~heap[a].direct => heap[a].support = heap[a].applied

\* A confirmed object has been decayed.
C4_Witness ==
  \E w \in Workers :
    /\ pc[w] = "done"
    /\ loc[w].outcome = "decay"
    /\ ~heap[loc[w].obj].direct
    /\ heap[loc[w].obj].support >= ConfirmBonus

DropOutcomes == {"drop_range", "drop_tf", "drop_height", "drop_support"}

\* C6: a percept cycle that ends before the association (ranging failed or
\* gave a distance <= 0 with projection enabled, the transform lookup threw,
\* the height is out of band, the support is 0) has changed no object and not
\* the store, has never held the lock and has published nothing; and no
\* cycle with one of these causes gets as far as the lock.
C6_DroppedCycleNoEffect ==
  \A w \in Workers :
    LET l == loc[w]
    IN /\ (l.cb = "pose" /\ (pc[w] \in {"pp_range", "pp_tf", "pp_lock"}
                              \/ (pc[w] = "done" /\ l.outcome \in DropOutcomes)))
          => /\ store = l.pre_store
             /\ heap = l.pre_heap
             /\ ~l.locked
             /\ lockOwner # w
             /\ l.pubs = <<>>
       /\ (l.cb = "pose" /\ (l.locked \/ pc[w] = "pp_lock"))
          => /\ l.support # 0
             /\ l.class_id # "" \/ l.object_id # ""
             /\ l.relative_height >= MinHeight /\ l.relative_height <= MaxHeight
             /\ l.ranged = IF project_objects THEN "ok" ELSE "none"
             /\ l.looked = IF l.frame # FrameId THEN "ok" ELSE "none"
       /\ (l.cb = "pose" /\ pc[w] = "done" /\ ~l.locked)
          => l.outcome \in DropOutcomes

\* A percept with neither class nor object id has been dropped while the
\* store held an object.
C6_Witness ==
  \E w \in Workers :
    /\ pc[w] = "done"
    /\ loc[w].outcome = "drop_support"
    /\ loc[w].class_id = ""
    /\ loc[w].object_id = ""
    /\ Len(store) > 0

\* C7: setObjectStateCb for an identifier that is not stored returns false;
\* addObjectCb returns false when the ranging it was asked for fails and when
\* the transform fails; a request that returned false has changed no object
\* and not the store, has published nothing and has left the lock free.
C7_FailedRequestNoEffect ==
  \A w \in Workers :
    LET l == loc[w]
    IN /\ (pc[w] = "done" /\ l.cb \in {"setstate", "add"} /\ l.ret = "false")
          => /\ store = l.pre_store
             /\ heap = l.pre_heap
             /\ l.pubs = <<>>
             /\ lockOwner = 0
       /\ (pc[w] = "done" /\ l.cb = "setstate"
           /\ getObjectIn(l.pre_store, l.pre_heap, l.object_id) = 0)
          => l.ret = "false"
       /\ (l.cb = "add" /\ pc[w] \in {"ao_lock", "pm_publish", "pm_draw"})
          => /\ l.ranged = IF l.map_to_next_obstacle THEN "ok" ELSE "none"
             /\ l.looked = "ok"
       /\ (l.cb = "add" /\ pc[w] = "done")
          => l.ret = IF l.ranged = "fail" \/ l.looked = "fail" THEN "false" ELSE "true"

\* An add request for a new object has failed in its ranging step while the
\* store held an object.
C7_Witness ==
  \E w \in Workers :
    /\ pc[w] = "done"
    /\ loc[w].cb = "add"
    /\ loc[w].newObject
    /\ loc[w].ranged = "fail"
    /\ loc[w].ret = "false"
    /\ Len(store) > 0

\* C8: the store holds at most one object per identifier.
C8_UniqueIdentifiers ==
  \A i, j \in 1..Len(store) :
    i # j => heap[store[i]].object_id # heap[store[j]].object_id

\* C9: a callback inside a ranging request or a frame lookup has not yet
\* acquired the lock, and a callback inside a verification request has
\* released it.
C9_NoLockAcrossCalls ==
  \A w \in Workers :
    /\ pc[w] \in {"pp_range", "pp_tf", "ao_range", "ao_tf"}
       => lockOwner # w /\ ~loc[w].locked
    /\ pc[w] = "pp_verify" => lockOwner # w /\ loc[w].locked

\* One worker is inside a verification request while the other holds the lock.
C9_Witness ==
  \E w \in Workers : \E v \in Workers \ {w} :
    /\ pc[w] = "pp_verify"
    /\ lockOwner = v

Mutating == {"create", "fuse", "decay", "setstate", "add_new", "add_update"}

\* C10: a callback that has created, fused, decayed, set the state of or
\* overwritten an object has, when it returns, published that object on the
\* object channel and after it the model on the model channel, and nothing
\* else.
C10_ObjectThenModel ==
  \A w \in Workers :
    LET l == loc[w]
    IN (pc[w] = "done" /\ l.outcome \in Mutating)
       => /\ Len(l.pubs) = 2
          /\ l.pubs[1].topic = "object"
          /\ l.pubs[1].data[1].object_id = heap[l.obj].object_id
          /\ l.pubs[2].topic = "objects"

C10_Witness ==
  \E w \in Workers :
    /\ pc[w] = "done"
    /\ loc[w].outcome = "fuse"
    /\ Len(loc[w].pubs) = 2

\* C11: after the mutation of a percept cycle every configured verification
\* service is called once, in the order of the configuration, whatever the
\* earlier ones answered: the call of service vi is followed by the call of
\* service vi + 1 until the last, a DISCARD response sets the state of the
\* object to DISCARDED, a CONFIRM response adds 100 to its support, and an
\* UNKNOWN response or a failed call changes neither.
C11_EveryServiceCalled ==
  [][ \A w \in Workers :
        /\ (pc[w] = "pp_header" /\ pc'[w] # "pp_header")
           => /\ pc'[w] = IF nverif > 0 THEN "pp_verify" ELSE "pp_publish"
              /\ loc'[w].responses = <<>>
        /\ (pc[w] = "pp_verify" /\ loc'[w] # loc[w])
           => LET l == loc[w]
                  r == loc'[w].responses[l.vi]
                  o == heap[l.obj]
                  n == heap'[l.obj]
              IN /\ Len(l.responses) = l.vi - 1
                 /\ Len(loc'[w].responses) = l.vi
                 /\ loc'[w].vi = l.vi + 1
                 /\ pc'[w] = IF l.vi < nverif THEN "pp_verify" ELSE "pp_publish"
                 /\ n.state = IF r = "DISCARD" THEN DISCARDED ELSE o.state
                 /\ n.support = IF r = "CONFIRM" THEN o.support + 100 ELSE o.support
                 /\ n.ivec = o.ivec /\ n.info = o.info
        /\ (pc[w] = "pp_publish" /\ loc[w].cb = "pose")
           => Len(loc[w].responses) = nverif
    ]_vars

\* The first service has discarded the object and the second, called all the
\* same, has confirmed it.
C11_Witness ==
  \E w \in Workers :
    /\ pc[w] = "pp_publish"
    /\ loc[w].responses = <<"DISCARD", "CONFIRM">>
    /\ heap[loc[w].obj].state = DISCARDED
    /\ heap[loc[w].obj].support >= 100

C13_HeaderInGlobalFrame ==
  \A i \in 1..Len(store) :
    \/ heap[store[i]].frame = FrameId
    \/ \E w \in Workers :
         /\ lockOwner = w
         /\ pc[w] = "pp_header"
         /\ loc[w].obj = store[i]
         /\ loc[w].outcome = "create"

\* The store holds an object written by an add request and one created from
\* a percept in the camera frame.
C13_Witness ==
  \E w \in Workers :
    /\ pc[w] = "done"
    /\ loc[w].cb = "pose"
    /\ loc[w].frame # FrameId
    /\ loc[w].outcome = "create"
    /\ \E i, j \in 1..Len(store) :
         /\ heap[store[i]].direct
         /\ store[j] = loc[w].obj
         /\ heap[store[i]].frame = FrameId
         /\ heap[store[j]].frame = FrameId

\* C14: no snapshot of the store that publishModel has published or
\* getObjectModelCb has returned shows an object between the two halves of a
\* cycle's write: its estimate written by one callback and its header still
\* the one an earlier callback left.
C14_SnapshotsShowWholeWrites ==
  \A w \in Workers :
    \A k \in 1..Len(loc[w].pubs) :
      LET msg == loc[w].pubs[k]
      IN msg.topic \in {"objects", "response"}
         => \A i \in 1..Len(msg.data) : msg.data[i].written = msg.data[i].stamp

\* C15: a sysCommandCb that has handled "reset" has, when it returns,
\* published a snapshot of the emptied store on the model channel.
C15_ResetPublishesSnapshot ==
  \A w \in Workers :
    (pc[w] = "done" /\ loc[w].cb = "sys" /\ loc[w].data = "reset")
    => \E k \in 1..Len(loc[w].pubs) :
         loc[w].pubs[k].topic = "objects" /\ loc[w].pubs[k].data = <<>>

\* C16: the step of the verification loop that changes the state or the
\* support of the object (DISCARD, CONFIRM) is taken by a callback that
\* holds the store lock.
C16_VerificationWritesUnderLock ==
  [][ \A w \in Workers :
        (pc[w] = "pp_verify" /\ loc'[w].vi # loc[w].vi
         /\ \/ heap'[loc[w].obj].state # heap[loc[w].obj].state
            \/ heap'[loc[w].obj].support # heap[loc[w].obj].support)
        => lockOwner = w
    ]_vars

\* C17: the verification phase of a percept cycle does not change the state
\* or the support of an object whose state has become the fixed sentinel
\* since the cycle was associated with it.
C17_VerificationSparesFixed ==
  [][ \A w \in Workers :
        (pc[w] = "pp_verify" /\ loc'[w].vi # loc[w].vi
         /\ heap[loc[w].obj].state < 0)
        => /\ heap'[loc[w].obj].state = heap[loc[w].obj].state
           /\ heap'[loc[w].obj].support = heap[loc[w].obj].support
    ]_vars

\* C18: a percept that names an object which is stored (and not fixed) is
\* resolved to that object: the cycle fuses it or decays it and the store
\* does not grow.
C18_ExplicitIdResolvedByLookup ==
  \A w \in Workers :
    LET l == loc[w]
        existing == getObjectIn(l.pre_store, l.pre_heap, l.object_id)
    IN (l.cb = "pose" /\ l.object_id # "" /\ l.locked /\ pc[w] # "pp_mutate"
        /\ existing # 0 /\ l.pre_heap[existing].state >= 0)
       => /\ pc[w] # "aborted"
          /\ l.obj = existing
          /\ l.outcome \in {"fuse", "decay"}
          /\ Len(store) = Len(l.pre_store)

\* The reference choice of the association: among the stored objects that
\* are class-compatible with the percept (a different non-empty class
\* excludes an object; an object without class matches any class hint) and
\* whose squared Mahalanobis distance is strictly below 1.0, the one at the
\* least distance, the first in store order among equals; 0 if there is none.
ClassCompatible(x, l) ==
  l.class_id = "" \/ x.class_id = "" \/ x.class_id = l.class_id

ReferenceChoice(st, hp, l) ==
  LET d(i) == SqDistance(hp[st[i]], l.p, l.q)
      cand == {i \in 1..Len(st) : ClassCompatible(hp[st[i]], l) /\ d(i)[1] < d(i)[2]}
  IN IF cand = {} THEN 0
     ELSE st[CHOOSE i \in cand :
               \A j \in cand :
                 \/ d(i)[1] * d(j)[2] < d(j)[1] * d(i)[2]
                 \/ d(i)[1] * d(j)[2] = d(j)[1] * d(i)[2] /\ i <= j]

\* C19: for a percept without object id the object the scan of
\* posePerceptCb selects is the reference choice.
C19_ScanIsReferenceChoice ==
  \A w \in Workers :
    LET l == loc[w]
    IN (l.cb = "pose" /\ l.object_id = "" /\ l.locked)
       => /\ FindCorrespondenceIn(l.pre_store, l.pre_heap, l)
               = ReferenceChoice(l.pre_store, l.pre_heap, l)
          /\ pc[w] = "pp_mutate"
             => l.obj = ReferenceChoice(l.pre_store, l.pre_heap, l)

SameConcurrentPercepts(w, v) ==
  /\ w # v
  /\ PastLock(w) /\ PastLock(v)
  /\ loc[w].object_id = "" /\ loc[v].object_id = ""
  /\ loc[w].class_id = loc[v].class_id
  /\ loc[w].p = loc[v].p /\ loc[w].q = loc[v].q
  /\ loc[w].support > 0 /\ loc[v].support > 0
  /\ loc[w].pre_heap = <<>>
  /\ loc[w].stamp = 1 /\ loc[v].stamp = 2

\* C21: of two such percepts exactly one has created an object and the other
\* has been fused into that object; the store holds that one object.
C21_OneCreatesOtherFuses ==
  \A w, v \in Workers :
    SameConcurrentPercepts(w, v)
    => /\ Len(heap) = 1
       /\ store = <<1>>
       /\ loc[w].obj = 1 /\ loc[v].obj = 1
       /\ {loc[w].outcome, loc[v].outcome} = {"create", "fuse"}
       /\ heap[1].info >= 2 * loc[w].q

\* Both cycles were delivered on the empty store, one has created the object
\* and the other has been fused into it.
C21_Witness ==
  \E w, v \in Workers :
    /\ SameConcurrentPercepts(w, v)
    /\ loc[v].pre_heap = <<>>
    /\ pc[w] = "done" /\ pc[v] = "done"
    /\ loc[w].obj = loc[v].obj
    /\ Len(store) = 1

\* The CONFIRM responses among the verification responses rs.
RECURSIVE Confirms(_)
Confirms(rs) ==
  IF rs = <<>> THEN 0
  ELSE (IF Head(rs) = "CONFIRM" THEN 1 ELSE 0) + Confirms(Tail(rs))

\* C22: a percept with negative support that is associated to a stored
\* object whose state is not fixed takes the decay branch: the support of
\* the object grows by exactly that negative value, its position, covariance
\* and state stay as they were, its orientation and header are overwritten
\* from the percept, and no object is created. (What the verification
\* responses of the same cycle add afterwards is accounted for separately.)
C22_NegativeSupportDecays ==
  \A w \in Workers :
    LET l == loc[w]
        object == FindCorrespondenceIn(l.pre_store, l.pre_heap, l)
    IN (l.cb = "pose" /\ l.locked /\ pc[w] # "pp_mutate" /\ l.support < 0
        /\ object # 0 /\ l.pre_heap[object].state >= 0)
       => LET o == l.pre_heap[object]
              n == heap[object]
          IN /\ PastLock(w)
             /\ l.outcome = "decay"
             /\ l.obj = object
             /\ store = l.pre_store
             /\ Len(heap) = Len(l.pre_heap)
             /\ n.ivec = o.ivec /\ n.info = o.info
             /\ n.support = o.support + l.support + 100 * Confirms(l.responses)
             /\ n.state = IF \E k \in 1..Len(l.responses) : l.responses[k] = "DISCARD"
                          THEN DISCARDED ELSE o.state
             /\ pc[w] # "pp_header"
                => n.yaw = l.yaw /\ n.frame = FrameId /\ n.stamp = l.stamp

\* A percept with support -1 has lowered the support of a stored object and
\* overwritten its header.
C22_Witness ==
  \E w \in Workers :
    LET l == loc[w]
    IN /\ pc[w] = "done"
       /\ l.outcome = "decay"
       /\ l.support = -1
       /\ l.responses = <<>>
       /\ heap[l.obj].support = l.pre_heap[l.obj].support - 1
       /\ heap[l.obj].stamp = l.stamp
       /\ heap[l.obj].stamp # l.pre_heap[l.obj].stamp

\* C23: when addObjectCb ends its locked section, having written and
\* published the object it is about to report with success, that object is
\* in the store.
C23_AddedObjectIsStored ==
  [][ \A w \in Workers :
        (pc[w] = "ao_lock" /\ pc'[w] = "pm_publish")
        => \E i \in 1..Len(store') : store'[i] = loc'[w].obj
    ]_vars

====
